---- MODULE Spec2Model ----
(***************************************************************************)
(* Payment/job lifecycle engine of n8n-nodes-masumi-payment.               *)
(*                                                                         *)
(* Handlers are asynchronous functions run by a single-threaded event      *)
(* loop: a handler runs without interruption from one await to the next.   *)
(* Each action below is one such run-to-completion segment of a handler.   *)
(* The payment service, the start_polling webhook target and the clock     *)
(* are the environment.                                                    *)
(***************************************************************************)
EXTENDS Integers, Sequences, FiniteSets, TLC

\* ------------------------------------------------------------------ bounds
MaxCalls == 1      \* handler invocations that may be suspended at an await together
MaxJobs == 1       \* identifiers generateIdentifier hands out
MaxTicks == 1      \* clock advances
MaxStamp == 1      \* distinct timestamp answers of the payment service

TickMs == 6000     \* milliseconds in one clock advance
MaxQueries == 4    \* status queries one run of pollPaymentStatus may send
PollTickMs == 1000 \* milliseconds in one clock advance while observing a poll
PollHorizon == 1000 \* direct polls start before this time (ms)

\* ------------------------------------------------------- program constants
StatusTimeoutMs == 6000
StatusIntervalMs == 0
MinHexLen == 14
MaxHexLen == 26

\* --------------------------------------------------------------- JS values
Undefined == "undefined"
Null == "null"
EmptyString == ""

Truthy(v) == v \notin {Undefined, Null, EmptyString}

JOB_STATUS ==
  [PENDING |-> "pending", AWAITING_PAYMENT |-> "awaiting_payment",
   AWAITING_INPUT |-> "awaiting_input", RUNNING |-> "running",
   COMPLETED |-> "completed", FAILED |-> "failed"]

ValidOrAnyString ==
  {"pending", "awaiting_payment", "awaiting_input", "running", "completed",
   "failed", "bogus"}

VALID_JOB_STATUSES ==
  {JOB_STATUS.PENDING, JOB_STATUS.AWAITING_PAYMENT, JOB_STATUS.AWAITING_INPUT,
   JOB_STATUS.RUNNING, JOB_STATUS.COMPLETED, JOB_STATUS.FAILED}

SuccessStates == {"FundsLocked", "ResultSubmitted", "Withdrawn"}

ErrorStates ==
  {"FundsOrDatumInvalid", "RefundRequested", "Disputed", "RefundWithdrawn",
   "DisputedWithdrawn"}

\* onChainState values a found payment record may carry: the terminal ones,
\* null, and one string outside the table
OnChainStates == SuccessStates \cup ErrorStates \cup {Null, "Processing"}

\* ------------------------------------------------------------------ inputs
Calls == 1 .. MaxCalls
\* the invocations the event loop can hold suspended at an await: one more
\* than Calls, so that handlers can be run against each other
Slots == 1 .. (MaxCalls + 1)
NoId == 0
JobIds == 1 .. MaxJobs
\* keys the store can hold: the identifiers above, and one more for the
\* specification in which a further job is started
StoreIds == 1 .. (MaxJobs + 1)
\* job ids a caller may pass: empty, generated ones, one never generated
QueryIds == 0 .. (MaxJobs + 1)
NoRef == 0
\* object identities: the object stored under job id j has identity j, an
\* object no longer stored but still held by a suspended handler has one of
\* the further identities
ObjIds == 1 .. (MaxJobs + MaxCalls + 2)
StaleIds == (MaxJobs + 2) .. (MaxJobs + MaxCalls + 2)

\* purchaser identifiers as UTF-8 byte sequences: "a" and a 14 byte string
ShortPurchaser == <<97>>
LongPurchaser == [i \in 1 .. 14 |-> 97 + (i % 3)]
PurchaserIds == {ShortPurchaser, LongPurchaser}

\* values inside an input object: strings, undefined, nested objects
StrV(text) == [kind |-> "string", text |-> text, entries |-> <<>>]
UndefV == [kind |-> "undefined", text |-> "", entries |-> <<>>]
ObjV(entries) == [kind |-> "object", text |-> "", entries |-> entries]

\* input_data values: an object (entries <<key, value>> in insertion order,
\* a key standing for its first character code), a
\* string holding the JSON text of that object, a string that is not JSON,
\* and undefined
ObjectInput ==
  [kind |-> "object", entries |-> <<<<112, StrV("hi")>>, <<105, StrV("x")>>>>,
   json |-> FALSE]
JsonStringInput ==
  [kind |-> "string", entries |-> <<<<112, StrV("hi")>>, <<105, StrV("x")>>>>,
   json |-> TRUE]

\* arguments of a direct generateInputHash call: objects of up to two fields
\* with keys a, b and toJSON, holding strings, undefined and nested objects
\* that differ in key order only
ToJSONKey == 116
HashKeys == {97, 98, ToJSONKey}
NestedAB == ObjV(<<<<97, StrV("x")>>, <<98, StrV("y")>>>>)
NestedBA == ObjV(<<<<98, StrV("y")>>, <<97, StrV("x")>>>>)
HashValues == {StrV("x"), StrV("y"), UndefV, NestedAB, NestedBA}
HashEntries ==
  {<<>>}
    \cup {<<<<k, v>>>> : k \in HashKeys, v \in HashValues}
    \cup {e \in {<<<<k1, v1>>, <<k2, v2>>>> :
                    k1 \in HashKeys, k2 \in HashKeys,
                    v1 \in HashValues, v2 \in HashValues} :
            e[1][1] # e[2][1]}
HashInputs ==
  {[kind |-> "object", entries |-> e, json |-> FALSE] : e \in HashEntries}
PlainStringInput == [kind |-> "string", entries |-> <<>>, json |-> FALSE]
UndefinedInput == [kind |-> "undefined", entries |-> <<>>, json |-> FALSE]
InputDatas == {ObjectInput, JsonStringInput, PlainStringInput, UndefinedInput}

InstanceUrls == {EmptyString, "https://n8n"}

\* options of a direct pollPaymentStatus call, in milliseconds
PollTimeouts == {0, 3000}
PollIntervals == {0, 1000, 2000}

ResultArgs == {Undefined, "r1"}
ErrorArgs == {Undefined, "e1"}
StatusArgs == VALID_JOB_STATUSES \cup {Undefined, "bogus"}

\* ----------------------------------------------------------- pure helpers
\* Buffer.from(s, 'utf8').toString('hex') as a sequence of hex digits
RECURSIVE ToHex(_)
ToHex(bytes) ==
  IF bytes = <<>> THEN <<>>
  ELSE <<Head(bytes) \div 16, Head(bytes) % 16>> \o ToHex(Tail(bytes))

\* String.prototype.padEnd(n, '0')
PadEnd(s, n) ==
  IF Len(s) >= n THEN s ELSE s \o [i \in 1 .. (n - Len(s)) |-> 0]

\* String.prototype.substring(0, n)
Substring0(s, n) == IF Len(s) <= n THEN s ELSE SubSeq(s, 1, n)

\* start-job.ts: hex conversion of identifierFromPurchaser
PaymentIdentifier(identifierFromPurchaser) ==
  LET hexString == ToHex(identifierFromPurchaser)
      padded == IF Len(hexString) < MinHexLen THEN PadEnd(hexString, MinHexLen) ELSE hexString
  IN IF Len(padded) > MaxHexLen THEN Substring0(padded, MaxHexLen) ELSE padded

\* typeof inputData === 'string' ? JSON.parse(inputData) : inputData,
\* keeping the string when JSON.parse throws
ParseInputData(inputData) ==
  IF inputData.kind = "string" /\ inputData.json
  THEN [kind |-> "object", entries |-> inputData.entries, json |-> FALSE]
  ELSE inputData

\* JSON.stringify(inputData).substring(0, 200) in the first log line throws
\* a TypeError when JSON.stringify returns undefined
LogInputThrows(inputData) == inputData.kind = "undefined"

\* Object.fromEntries on a non-empty string (or undefined) throws
InputHashThrows(parsed) == parsed.kind # "object"

\* Object.keys(obj).sort(): entries ordered by key (keys are character
\* codes; an object has no duplicate key)
RECURSIVE SortEntries(_)
SortEntries(entries) ==
  IF entries = <<>> THEN <<>>
  ELSE LET least == CHOOSE i \in 1 .. Len(entries) :
                      \A j \in 1 .. Len(entries) : entries[i][1] <= entries[j][1]
           rest == [k \in 1 .. (Len(entries) - 1) |->
                      IF k < least THEN entries[k] ELSE entries[k + 1]]
       IN <<entries[least]>> \o SortEntries(rest)

\* entries whose value is undefined are skipped
RECURSIVE DropUndefined(_)
DropUndefined(entries) ==
  IF entries = <<>> THEN <<>>
  ELSE IF Head(entries)[2].kind = "undefined" THEN DropUndefined(Tail(entries))
       ELSE <<Head(entries)>> \o DropUndefined(Tail(entries))

\* obj.toJSON is truthy: the object has a member toJSON that is a non-empty
\* string or an object
HasToJSON(entries) ==
  \E k \in 1 .. Len(entries) :
    /\ entries[k][1] = ToJSONKey
    /\ \/ entries[k][2].kind = "object"
       \/ entries[k][2].kind = "string" /\ entries[k][2].text # ""

\* JSON.stringify of a value without toJSON functions: members in insertion
\* order, undefined members left out
RECURSIVE Stringify(_)
Stringify(value) ==
  IF value.kind # "object" THEN value
  ELSE LET kept == DropUndefined(value.entries)
       IN ObjV([k \in 1 .. Len(kept) |-> <<kept[k][1], Stringify(kept[k][2])>>])

\* canonicalize: the text it returns, as the value that text denotes with
\* its members in the order they are written. A primitive and an object
\* with a truthy toJSON go through JSON.stringify; the keys of any other
\* object are sorted, undefined members skipped, values canonicalized
RECURSIVE Canonicalize(_)
Canonicalize(value) ==
  IF value.kind # "object" THEN value
  ELSE IF HasToJSON(value.entries) THEN Stringify(value)
  ELSE LET kept == DropUndefined(SortEntries(value.entries))
       IN ObjV([k \in 1 .. Len(kept) |->
                  <<kept[k][1], Canonicalize(kept[k][2])>>])

\* sha256 as an injective constructor over its preimage
Sha256(preimage) == <<"sha256", preimage>>
NoHash == <<>>

\* shared/utils: sha256(identifierFromPurchaser + ";" + canonical(input))
generateInputHash(identifierFromPurchaser, inputData) ==
  Sha256(<<identifierFromPurchaser, Canonicalize(ObjV(inputData.entries))>>)

\* ------------------------------------------------------------------ state
VARIABLES
  calls,        \* suspended handler invocations: position and locals of each
  ret,          \* what the handler that finished last returned or threw
  heap,         \* Job objects by identity
  jobs,         \* storage.jobs: job id -> the object stored under it
  last_job_id,  \* storage.last_job_id
  nextJobId,    \* identifiers generateIdentifier has handed out so far, plus one
  issued,       \* invoices the payment service has created
  triggers,     \* per job id: the triggerInternalWebhook invocation made for it
  submitted,    \* blockchainIdentifiers of the submit-result requests that succeeded
  now           \* Date.now() in milliseconds

vars == <<calls, ret, heap, jobs, last_job_id, nextJobId, issued, triggers,
          submitted, now>>

NoPayment ==
  [blockchainIdentifier |-> 0, payByTime |-> 0, submitResultTime |-> 0,
   unlockTime |-> 0, externalDisputeUnlockTime |-> 0, inputHash |-> NoHash]

NoJob ==
  [job_id |-> NoId, identifier_from_purchaser |-> <<>>, input_data |-> UndefinedInput,
   status |-> "none", payment |-> NoPayment, result |-> Undefined,
   error |-> Undefined, created_at |-> 0, updated_at |-> 0]

\* what a handler returned (outcome "returned") or threw (outcome "threw")
NoRet ==
  [op |-> "none", outcome |-> "none", error |-> "", job_id |-> NoId,
   status |-> "none", poll |-> "none", identifierFromPurchaser |-> <<>>]

IdleCall ==
  [op |-> "none", pc |-> "idle", jobId |-> NoId, pid |-> <<>>,
   input |-> UndefinedInput, hash |-> NoHash, url |-> EmptyString,
   status |-> Undefined, result |-> Undefined, config |-> FALSE,
   ref |-> NoRef, updatedJob |-> NoJob, startTime |-> 0, last |-> "none",
   timeoutMs |-> 0, intervalMs |-> 0, wakeAt |-> 0, queries |-> 0,
   caught |-> FALSE, request |-> <<>>, error |-> Undefined, given |-> NoId]

NoTrigger == [invocations |-> 0, requests |-> 0, state |-> "none", job |-> NoJob]

\* the slot a new invocation is suspended in, should it reach an await
Free(c) ==
  /\ calls[c].pc = "idle"
  /\ \A d \in Slots : d < c => calls[d].pc # "idle"

\* the handlers once the one in slot c has finished
Done(c) == [calls EXCEPT ![c] = IdleCall]

\* object identities still reachable from the store or from a suspended handler
Reachable(js, cs) ==
  {js[j] : j \in StoreIds} \cup {cs[c].ref : c \in Slots}

\* unreachable objects are dropped (garbage collection)
Collect(h, js, cs) ==
  [o \in ObjIds |-> IF o \in Reachable(js, cs) THEN h[o] ELSE NoJob]

\* the handlers' references after the objects a and b have exchanged identity
SwapRefs(cs, a, b) ==
  [c \in Slots |->
     [cs[c] EXCEPT !.ref = IF @ = a THEN b ELSE IF @ = b THEN a ELSE @]]

\* an identity for an object that leaves the store while still held
Spare(cs) == CHOOSE o \in StaleIds : \A c \in Slots : cs[c].ref # o

\* job-handler: getJob(storage, jobId) -> the stored object, or null
getJob(jobId) == IF jobId \in StoreIds THEN jobs[jobId] ELSE NoRef

\* the record stored under a job id (NoJob when absent)
StoredJob(jobId) ==
  IF getJob(jobId) = NoRef THEN NoJob ELSE heap[getJob(jobId)]

\* job-handler: storeJob(storage, jobId, job) with a newly built object;
\* cs are the handlers after this run. The object stored before keeps
\* living for the handlers that hold it
storeJob(cs, jobId, job) ==
  LET held == \E c \in Slots : cs[c].ref = jobId
      spare == Spare(cs)
  IN /\ calls' = IF held THEN SwapRefs(cs, jobId, spare) ELSE cs
     /\ jobs' = [jobs EXCEPT ![jobId] = jobId]
     /\ heap' = Collect([heap EXCEPT ![IF held THEN spare ELSE jobId] = heap[jobId],
                                     ![jobId] = job],
                        jobs', calls')

\* job-handler: storeJob(storage, jobId, job) with the object ref, already
\* changed in place to the record job; cs are the handlers after this run
storeHeldUnlessReplaced(cs, jobId, ref, job) ==
  IF ref = jobs[jobId]
  THEN /\ calls' = SwapRefs(cs, jobId, ref)
       /\ jobs' = [jobs EXCEPT ![jobId] = jobId]
       /\ heap' = Collect([heap EXCEPT ![ref] = heap[jobId], ![jobId] = job],
                          jobs', calls')
  ELSE /\ calls' = cs
       /\ jobs' = jobs
       /\ heap' = Collect(heap, jobs, cs)

storeHeld(cs, jobId, ref, job) ==
  /\ calls' = SwapRefs(cs, jobId, ref)
  /\ jobs' = [jobs EXCEPT ![jobId] = jobId]
  /\ heap' = Collect([heap EXCEPT ![ref] = heap[jobId], ![jobId] = job],
                     jobs', calls')

Init ==
  /\ calls = [c \in Slots |-> IdleCall]
  /\ ret = NoRet
  /\ heap = [o \in ObjIds |-> NoJob]
  /\ jobs = [j \in StoreIds |-> NoRef]
  /\ last_job_id = NoId
  /\ nextJobId = 1
  /\ issued = 0
  /\ triggers = [j \in StoreIds |-> NoTrigger]
  /\ submitted = {}
  /\ now = 0

\* the clock advances
Tick ==
  /\ now + TickMs <= MaxTicks * TickMs
  /\ now' = now + TickMs
  /\ UNCHANGED <<calls, ret, heap, jobs, last_job_id, nextJobId, issued,
                 triggers, submitted>>

\* ----------------------------------------------------------- environment
PaymentOutcomes == {"ok", "http_error", "network_error"}

\* POST /payment/ answer: the n-th invoice, its timestamps chosen by the service
Invoice(n, stamp) ==
  [blockchainIdentifier |-> n, payByTime |-> 10 * stamp + 1,
   submitResultTime |-> 10 * stamp + 2, unlockTime |-> 10 * stamp + 3,
   externalDisputeUnlockTime |-> 10 * stamp + 4]

\* ------------------------------------------------------ background trigger
\* triggerInternalWebhook up to its first await: parameter validation, then
\* the POST to <instanceUrl>/webhook/<path>/start_polling is put in flight
triggerInternalWebhookUnchecked(prev, instanceUrl, jobId, job) ==
  IF ~Truthy(instanceUrl)
  THEN [prev EXCEPT !.invocations = @ + 1, !.state = "no_instance_url"]
  ELSE [prev EXCEPT !.invocations = @ + 1, !.requests = @ + 1,
                    !.state = "inflight", !.job = job]

triggerInternalWebhook(prev, instanceUrl, jobId, job) ==
  IF ~Truthy(instanceUrl)
  THEN [prev EXCEPT !.invocations = @ + 1, !.state = "no_instance_url"]
  ELSE IF jobId = NoId
  THEN [prev EXCEPT !.invocations = @ + 1, !.state = "no_job_id"]
  ELSE [prev EXCEPT !.invocations = @ + 1, !.requests = @ + 1,
                    !.state = "inflight", !.job = job]

TriggerOutcomes == {"ok", "http_error", "exception"}

\* the .then/.catch callbacks handleStartJob attaches to the trigger promise
\* only log: the result handleStartJob returned stays as it is
\* the .then/.catch callbacks handleStartJob attaches to the trigger promise
\* only log: the result handleStartJob returned stays as it is
ThenCallbacksSurfacing(r, jobId, outcome) ==
  IF r.op = "handleStartJob" /\ r.job_id = jobId /\ outcome # "ok"
  THEN [r EXCEPT !.error = "webhook_trigger_failed"]
  ELSE r

ThenCallbacks(r, jobId, outcome) == r

\* the start_polling target answers (or the connection fails)
TriggerRespond(jobId, outcome) ==
  /\ triggers[jobId].state = "inflight"
  /\ triggers' = [triggers EXCEPT ![jobId].state = "resolved"]
  /\ ret' = ThenCallbacks(ret, jobId, outcome)
  /\ UNCHANGED <<calls, heap, jobs, last_job_id, nextJobId, issued, submitted, now>>

\* ---------------------------------------------------------- handleStartJob
\* the Job record handleStartJob builds from the invoice
NewJobPending(call, invoice, time) ==
  [job_id |-> call.jobId, identifier_from_purchaser |-> call.pid,
   input_data |-> call.input, status |-> JOB_STATUS.PENDING,
   payment |-> [blockchainIdentifier |-> invoice.blockchainIdentifier,
                payByTime |-> invoice.payByTime,
                submitResultTime |-> invoice.submitResultTime,
                unlockTime |-> invoice.unlockTime,
                externalDisputeUnlockTime |-> invoice.externalDisputeUnlockTime,
                inputHash |-> call.hash],
   result |-> Undefined, error |-> Undefined,
   created_at |-> time, updated_at |-> time]

NewJob(call, invoice, time) ==
  [job_id |-> call.jobId, identifier_from_purchaser |-> call.pid,
   input_data |-> call.input, status |-> JOB_STATUS.AWAITING_PAYMENT,
   payment |-> [blockchainIdentifier |-> invoice.blockchainIdentifier,
                payByTime |-> invoice.payByTime,
                submitResultTime |-> invoice.submitResultTime,
                unlockTime |-> invoice.unlockTime,
                externalDisputeUnlockTime |-> invoice.externalDisputeUnlockTime,
                inputHash |-> call.hash],
   result |-> Undefined, error |-> Undefined,
   created_at |-> time, updated_at |-> time]

\* the statements after `await createPayment` inside the try block (build
\* the job, storeJob, last_job_id) run only when createPayment did not throw
ReachesStoreJobAlways(outcome) == TRUE

ReachesStoreJob(outcome) == outcome = "ok"

\* the StartJobResult handleStartJob returns
StartJobResult(call, outcome) ==
  IF outcome = "ok"
  THEN [NoRet EXCEPT !.op = "handleStartJob", !.outcome = "returned",
                     !.status = "success", !.job_id = call.jobId,
                     !.identifierFromPurchaser = call.pid]
  ELSE [NoRet EXCEPT !.op = "handleStartJob", !.outcome = "returned",
                     !.error = "job_creation_failed", !.job_id = call.jobId,
                     !.identifierFromPurchaser = call.pid]

\* the trigger promise is not awaited: handleStartJob returns r in the same
\* run in which it called triggerInternalWebhook
AfterFireAwaiting(c, trig, r) ==
  IF trig.state = "inflight"
  THEN [calls |-> [calls EXCEPT ![c].pc = "awaitTrigger"], ret |-> ret]
  ELSE [calls |-> Done(c), ret |-> r]

AfterFire(c, trig, r) == [calls |-> Done(c), ret |-> r]

Threw(op, code) == [NoRet EXCEPT !.op = op, !.outcome = "threw", !.error = code]

\* handleStartJob up to `await createPayment(...)`; generateIdentifier has
\* at most maxJobs identifiers to hand out
StartJob(c, purchaser, inputData, instanceUrl, maxJobs) ==
  /\ Free(c)
  /\ IF LogInputThrows(inputData)
     THEN /\ ret' = Threw("handleStartJob", "TypeError")
          /\ UNCHANGED <<calls, nextJobId>>
     ELSE /\ nextJobId <= maxJobs
          /\ nextJobId' = nextJobId + 1
          /\ LET jobId == nextJobId
                 parsedInputData == ParseInputData(inputData)
                 paymentIdentifier == PaymentIdentifier(purchaser)
             IN IF InputHashThrows(parsedInputData)
                THEN /\ ret' = [Threw("handleStartJob", "TypeError") EXCEPT
                                  !.job_id = jobId]
                     /\ UNCHANGED calls
                ELSE /\ calls' = [calls EXCEPT ![c] =
                           [IdleCall EXCEPT !.op = "handleStartJob",
                                            !.pc = "awaitPayment",
                                            !.jobId = jobId,
                                            !.url = instanceUrl,
                                            !.input = parsedInputData,
                                            !.pid = paymentIdentifier,
                                            !.hash = generateInputHash(purchaser, parsedInputData)]]
                     /\ UNCHANGED ret
  /\ UNCHANGED <<heap, jobs, last_job_id, issued, triggers, submitted, now>>

StartJobCall(c, purchaser, inputData, instanceUrl) ==
  StartJob(c, purchaser, inputData, instanceUrl, MaxJobs)

\* handleStartJob from the answer of createPayment to its return
StartJobPaymentResponse(c, outcome, stamp) ==
  /\ calls[c].op = "handleStartJob"
  /\ calls[c].pc = "awaitPayment"
  /\ LET call == calls[c]
         jobId == call.jobId
         job == NewJob(call, Invoice(issued + 1, stamp), now)
         success == ReachesStoreJob(outcome)
         trig == triggerInternalWebhook(triggers[jobId], call.url, jobId,
                                        IF success THEN job ELSE NoJob)
         after == AfterFire(c, trig, StartJobResult(call, outcome))
     IN /\ ret' = after.ret
        /\ IF success
           THEN /\ storeJob(after.calls, jobId, job)
                /\ last_job_id' = jobId
           ELSE /\ calls' = after.calls
                /\ UNCHANGED <<heap, jobs, last_job_id>>
        /\ issued' = IF outcome = "ok" THEN issued + 1 ELSE issued
        /\ triggers' = [triggers EXCEPT ![jobId] = trig]
  /\ UNCHANGED <<nextJobId, submitted, now>>

\* ------------------------------------------------------- pollPaymentStatus
\* answers of GET /payment/: a record with that onChainState, no matching
\* record ("absent"), or a failed request ("failed")
QueryAnswers == OnChainStates \cup {"absent", "failed"}

\* the inline classification of pollPaymentStatus
PollTerminalLockedOnly(onChainState) ==
  onChainState \in {"FundsLocked"} \cup ErrorStates

PollTerminal(onChainState) == onChainState \in SuccessStates \cup ErrorStates

\* PaymentStatusResult returned for a terminal state: success, status, the
\* payment record (a record stands for its onChainState) and the message kind
PollResultSuccessOnly(onChainState) ==
  [success |-> TRUE,
   status |-> onChainState,
   payment |-> onChainState,
   message |-> IF onChainState = "FundsLocked" THEN "payment confirmed"
               ELSE "payment already processed"]

PollResult(onChainState) ==
  [success |-> onChainState \in SuccessStates,
   status |-> onChainState,
   payment |-> onChainState,
   message |-> IF onChainState = "FundsLocked" THEN "payment confirmed"
               ELSE IF onChainState \in SuccessStates
               THEN "payment already processed"
               ELSE "payment failed"]

\* PaymentStatusResult returned on timeout: the last observed record
PollTimeout(last) ==
  [success |-> FALSE, status |-> "timeout", payment |-> last,
   message |-> "timeout"]

NoPoll ==
  [success |-> FALSE, status |-> "none", payment |-> "none", message |-> "none"]

\* while (Date.now() - startTime < timeoutMs)
BeforeDeadlineInclusive(startTime, timeoutMs) == now - startTime <= timeoutMs

BeforeDeadline(startTime, timeoutMs) == now - startTime < timeoutMs

\* --------------------------------------------------- handleStatusResponse
\* status response built from the job the handler holds
StatusResponse(jobId, job, poll) ==
  [NoRet EXCEPT !.op = "handleStatusResponse", !.outcome = "returned",
                !.job_id = jobId, !.status = job.status, !.poll = poll.message]

\* the job object a suspended handleStatusResponse got from getJob
HeldJob(c) == IF calls[c].ref = NoRef THEN NoJob ELSE heap[calls[c].ref]

\* handleStatusResponse updates the job only when the record returned by
\* the poll carries onChainState FundsLocked
ConfirmsPaymentNever(poll) == FALSE

ConfirmsPaymentAnyRecord(poll) == poll.payment \notin {"none", Null}

ConfirmsPayment(poll) == poll.payment = "FundsLocked"

\* handleStatusResponse after `await pollPaymentStatus(...)`: the held job
\* object is changed in place and stored under its id, then the response
\* is built from it
StatusFinish(c, poll) ==
  LET call == calls[c]
      held == HeldJob(c)
      job == IF ConfirmsPayment(poll)
             THEN [held EXCEPT !.status = JOB_STATUS.RUNNING, !.updated_at = now]
             ELSE held
  IN /\ ret' = StatusResponse(call.jobId, job, poll)
     /\ IF ConfirmsPayment(poll)
        THEN storeHeld(Done(c), call.jobId, call.ref, job)
        ELSE /\ calls' = Done(c)
             /\ jobs' = jobs
             /\ heap' = Collect(heap, jobs, calls')

\* handleStatusResponse polls the payment service only for a job that waits
\* for its payment: job.status === 'awaiting_payment' &&
\* job.payment?.blockchainIdentifier
NeedsPollWithInvoice(job) == job.payment.blockchainIdentifier # 0

NeedsPoll(job) ==
  job.status = "awaiting_payment" /\ job.payment.blockchainIdentifier # 0

\* handleStatusResponse up to its first await
StatusCall(c, jobId) ==
  LET ref == getJob(jobId)
      job == heap[ref]
  IN
  /\ Free(c)
  /\ IF jobId = NoId
     THEN /\ ret' = [NoRet EXCEPT !.op = "handleStatusResponse",
                                  !.outcome = "returned",
                                  !.error = "missing_job_id"]
          /\ UNCHANGED <<calls, last_job_id>>
     ELSE IF ref = NoRef
     THEN /\ ret' = [NoRet EXCEPT !.op = "handleStatusResponse",
                                  !.outcome = "returned",
                                  !.error = "job_not_found", !.job_id = jobId,
                                  !.status = "failed"]
          /\ UNCHANGED <<calls, last_job_id>>
     ELSE /\ last_job_id' = jobId
          /\ IF NeedsPoll(job)
             THEN /\ calls' = [calls EXCEPT ![c] =
                        [IdleCall EXCEPT !.op = "handleStatusResponse",
                                         !.pc = "import", !.jobId = jobId,
                                         !.ref = ref,
                                         !.timeoutMs = StatusTimeoutMs,
                                         !.intervalMs = StatusIntervalMs]]
                  /\ UNCHANGED ret
             ELSE /\ ret' = StatusResponse(jobId, job, NoPoll)
                  /\ UNCHANGED calls
  /\ UNCHANGED <<heap, jobs, nextJobId, issued, triggers, submitted, now>>

\* what a direct caller of pollPaymentStatus gets back: the
\* PaymentStatusResult, with the number of queries the run has sent
PollReturned(call, result) ==
  [op |-> "pollPaymentStatus", result |-> result, queries |-> call.queries,
   caught |-> call.caught, timeoutMs |-> call.timeoutMs,
   intervalMs |-> call.intervalMs]

\* pollPaymentStatus returns result: to handleStatusResponse, which goes on
\* in the same run, or to a direct caller
PollReturn(c, call, result) ==
  IF call.op = "handleStatusResponse"
  THEN StatusFinish(c, result)
  ELSE /\ ret' = PollReturned(call, result)
       /\ calls' = Done(c)
       /\ UNCHANGED <<heap, jobs>>

\* one pass through the loop head of pollPaymentStatus: the next query is
\* sent, or the deadline has passed and the timeout result is returned
PollLoop(c, call) ==
  IF BeforeDeadline(call.startTime, call.timeoutMs)
  THEN /\ call.queries < MaxQueries
       /\ calls' = [calls EXCEPT ![c] =
                      [call EXCEPT !.pc = "query", !.queries = @ + 1]]
       /\ UNCHANGED <<ret, heap, jobs>>
  ELSE PollReturn(c, call, PollTimeout(call.last))

\* the dynamic import has resolved: pollPaymentStatus starts
StatusPollStart(c) ==
  /\ calls[c].op = "handleStatusResponse"
  /\ calls[c].pc = "import"
  /\ PollLoop(c, [calls[c] EXCEPT !.startTime = now])
  /\ UNCHANGED <<last_job_id, nextJobId, issued, triggers, submitted, now>>

\* a direct call of pollPaymentStatus(config, paymentIdentifier,
\* { timeoutMinutes, intervalSeconds }), up to its first await
PollCall(c, timeoutMs, intervalMs) ==
  /\ Free(c)
  /\ now < PollHorizon
  /\ PollLoop(c, [IdleCall EXCEPT !.op = "pollPaymentStatus",
                                  !.startTime = now,
                                  !.timeoutMs = timeoutMs,
                                  !.intervalMs = intervalMs])
  /\ UNCHANGED <<last_job_id, nextJobId, issued, triggers, submitted, now>>

\* lastPaymentStatus after a query: a found record replaces it, a missing
\* record or a failed query leaves it
ObservedErasing(last, answer) ==
  IF answer \in OnChainStates THEN answer ELSE "none"

Observed(last, answer) ==
  IF answer \in OnChainStates THEN answer ELSE last

\* no terminal state was seen, or checkPaymentStatus threw and the catch
\* block took over: the interval timer is set (caught records that the catch
\* block has run)
PollSleepEscaping(c, answer) ==
  IF answer = "failed"
  THEN PollReturn(c, calls[c], PollTimeout(calls[c].last))
  ELSE /\ calls' = [calls EXCEPT ![c].pc = "sleep",
                                 ![c].last = Observed(@, answer),
                                 ![c].wakeAt = now + calls[c].intervalMs]
       /\ UNCHANGED <<ret, heap, jobs>>

PollSleep(c, answer) ==
  /\ calls' = [calls EXCEPT ![c].pc = "sleep",
                            ![c].last = Observed(@, answer),
                            ![c].caught = @ \/ answer = "failed",
                            ![c].wakeAt = now + calls[c].intervalMs]
  /\ UNCHANGED <<ret, heap, jobs>>

\* checkPaymentStatus has answered
PollAnswer(c, answer) ==
  /\ calls[c].op \in {"handleStatusResponse", "pollPaymentStatus"}
  /\ calls[c].pc = "query"
  /\ IF answer \in OnChainStates /\ PollTerminal(answer)
     THEN PollReturn(c, calls[c], PollResult(answer))
     ELSE PollSleep(c, answer)
  /\ UNCHANGED <<last_job_id, nextJobId, issued, triggers, submitted, now>>

\* setTimeout(resolve, intervalMs) fires no earlier than intervalMs after it
\* was set
TimerFiredAtOnce(call) == TRUE

TimerFired(call) == now >= call.wakeAt

\* the interval timer has fired
PollWake(c) ==
  /\ calls[c].op \in {"handleStatusResponse", "pollPaymentStatus"}
  /\ calls[c].pc = "sleep"
  /\ TimerFired(calls[c])
  /\ PollLoop(c, calls[c])
  /\ UNCHANGED <<last_job_id, nextJobId, issued, triggers, submitted, now>>

\* time passes in steps of PollTickMs, for as long as the observation window
\* lasts or a run of pollPaymentStatus waits for its timer or its deadline
Elapse ==
  /\ \/ now < PollHorizon
     \/ \E c \in Slots :
          /\ calls[c].pc \in {"query", "sleep"}
          /\ \/ BeforeDeadline(calls[c].startTime, calls[c].timeoutMs)
             \/ calls[c].pc = "sleep" /\ ~TimerFired(calls[c])
  /\ now' = now + PollTickMs
  /\ UNCHANGED <<calls, ret, heap, jobs, last_job_id, nextJobId, issued,
                 triggers, submitted>>

\* ---------------------------------------------------- interpretPaymentStatus
\* arguments of interpretPaymentStatus: no status at all ("absent"), or a
\* record, which stands for its onChainState: a state of the table, null,
\* undefined, the empty string, or a string outside the table
InterpretInputs ==
  {"absent", Undefined, EmptyString, "fundslocked"} \cup OnChainStates

\* `still processing: ${onChainState || 'pending'}`
ProcessingDetail(onChainState) ==
  IF Truthy(onChainState) THEN onChainState ELSE "pending"

Interpretation(isConfirmed, isError, shouldContinuePolling, message) ==
  [isConfirmed |-> isConfirmed, isError |-> isError,
   shouldContinuePolling |-> shouldContinuePolling, message |-> message]

interpretPaymentStatusSubmittedPending(status) ==
  IF status = "absent"
  THEN Interpretation(FALSE, FALSE, TRUE, <<"payment not found">>)
  ELSE IF status = "FundsLocked"
  THEN Interpretation(TRUE, FALSE, FALSE, <<"funds locked - payment confirmed">>)
  ELSE IF status = "Withdrawn"
  THEN Interpretation(TRUE, FALSE, FALSE, <<"payment already processed">>)
  ELSE IF Truthy(status)
          /\ status \in {"FundsOrDatumInvalid", "RefundRequested", "Disputed",
                         "RefundWithdrawn", "DisputedWithdrawn"}
  THEN Interpretation(FALSE, TRUE, FALSE, <<"payment failed", status>>)
  ELSE Interpretation(FALSE, FALSE, TRUE,
                      <<"still processing", ProcessingDetail(status)>>)

interpretPaymentStatus(status) ==
  IF status = "absent"
  THEN Interpretation(FALSE, FALSE, TRUE, <<"payment not found">>)
  ELSE IF status = "FundsLocked"
  THEN Interpretation(TRUE, FALSE, FALSE, <<"funds locked - payment confirmed">>)
  ELSE IF status = "ResultSubmitted" \/ status = "Withdrawn"
  THEN Interpretation(TRUE, FALSE, FALSE, <<"payment already processed">>)
  ELSE IF Truthy(status)
          /\ status \in {"FundsOrDatumInvalid", "RefundRequested", "Disputed",
                         "RefundWithdrawn", "DisputedWithdrawn"}
  THEN Interpretation(FALSE, TRUE, FALSE, <<"payment failed", status>>)
  ELSE Interpretation(FALSE, FALSE, TRUE,
                      <<"still processing", ProcessingDetail(status)>>)

\* a call of interpretPaymentStatus(status)
InterpretCall(status) ==
  /\ ret' = [op |-> "interpretPaymentStatus", status |-> status,
             out |-> interpretPaymentStatus(status)]
  /\ UNCHANGED <<calls, heap, jobs, last_job_id, nextJobId, issued, triggers,
                 submitted, now>>

\* --------------------------------------------------------- updateJobStatus
SubmitOutcomes == {"ok", "http_error", "network_error"}

\* the copy updateJobStatus builds: { ...job, status, updated_at }, then the
\* result when it is not undefined and the error when it is truthy
UpdatedJobWithoutPayment(job, status, result, error) ==
  [job EXCEPT !.status = status, !.updated_at = now,
              !.payment = NoPayment,
              !.result = IF result # Undefined THEN result ELSE @,
              !.error = IF Truthy(error) THEN error ELSE @]

UpdatedJobStampingCreation(job, status, result, error) ==
  [job EXCEPT !.status = status, !.updated_at = now, !.created_at = now,
              !.result = IF result # Undefined THEN result ELSE @,
              !.error = IF Truthy(error) THEN error ELSE @]

UpdatedJob(job, status, result, error) ==
  [job EXCEPT !.status = status, !.updated_at = now,
              !.result = IF result # Undefined THEN result ELSE @,
              !.error = IF Truthy(error) THEN error ELSE @]

\* status === COMPLETED && result !== undefined &&
\* job.payment?.blockchainIdentifier && config
SubmitsOnchainWithoutConfig(job, status, result, config) ==
  /\ status = JOB_STATUS.COMPLETED
  /\ result # Undefined
  /\ job.payment.blockchainIdentifier # 0

SubmitsOnchain(job, status, result, config) ==
  /\ status = JOB_STATUS.COMPLETED
  /\ result # Undefined
  /\ job.payment.blockchainIdentifier # 0
  /\ config

\* handleUpdateStatus after updateJobStatus returned the updated job
Updated(jobId) ==
  [NoRet EXCEPT !.op = "handleUpdateStatus", !.outcome = "returned",
                !.status = "success", !.job_id = jobId]

\* updateJobStatus when getJob found nothing: null is returned before
\* anything is built or stored, and handleUpdateStatus answers job_not_found
JobNotFoundUpserting(jobId, status) ==
  /\ ret' = [NoRet EXCEPT !.op = "handleUpdateStatus", !.outcome = "returned",
                          !.error = "job_not_found", !.job_id = jobId]
  /\ storeJob(calls, jobId, [NoJob EXCEPT !.job_id = jobId, !.status = status,
                                          !.created_at = now, !.updated_at = now])

JobNotFound(jobId, status) ==
  /\ ret' = [NoRet EXCEPT !.op = "handleUpdateStatus", !.outcome = "returned",
                          !.error = "job_not_found", !.job_id = jobId]
  /\ UNCHANGED <<calls, heap, jobs>>

\* updateJobStatus up to `await submitResultToPaymentService(...)`, or to
\* its return when nothing is submitted
updateJobStatus(c, jobId, status, result, error, config) ==
  LET ref == getJob(jobId)
      job == heap[ref]
      updatedJob == UpdatedJob(job, status, result, error)
  IN IF ref = NoRef
     THEN JobNotFound(jobId, status)
     ELSE IF SubmitsOnchain(job, status, result, config)
     THEN /\ calls' = [calls EXCEPT ![c] =
                [IdleCall EXCEPT !.op = "handleUpdateStatus",
                                 !.pc = "awaitSubmit",
                                 !.jobId = jobId, !.status = status,
                                 !.result = result, !.config = config,
                                 !.updatedJob = updatedJob]]
          /\ UNCHANGED <<ret, heap, jobs>>
     ELSE /\ ret' = Updated(jobId)
          /\ storeJob(calls, jobId, updatedJob)

\* handleUpdateStatus(inputData, credentials, storage): validation of job_id
\* and status, config built when credentials are given, then updateJobStatus
HandleUpdateStatusCall(c, jobId, status, result, error, credentials) ==
  /\ Free(c)
  /\ IF jobId = NoId
     THEN /\ ret' = [NoRet EXCEPT !.op = "handleUpdateStatus",
                                  !.outcome = "returned",
                                  !.error = "missing_job_id"]
          /\ UNCHANGED <<calls, heap, jobs>>
     ELSE IF status \notin VALID_JOB_STATUSES
     THEN /\ ret' = [NoRet EXCEPT !.op = "handleUpdateStatus",
                                  !.outcome = "returned",
                                  !.error = "invalid_status"]
          /\ UNCHANGED <<calls, heap, jobs>>
     ELSE updateJobStatus(c, jobId, status, result, error, credentials)
  /\ UNCHANGED <<last_job_id, nextJobId, issued, triggers, submitted, now>>

\* submitResultToPaymentService failed: the error propagates out of
\* updateJobStatus before storeJob is reached
OnSubmitFailureSwallowed(c) ==
  /\ ret' = Updated(calls[c].jobId)
  /\ storeJob(Done(c), calls[c].jobId, calls[c].updatedJob)

OnSubmitFailureDeleting(c) ==
  /\ ret' = [Threw("handleUpdateStatus", "Failed to submit result onchain")
               EXCEPT !.job_id = calls[c].jobId]
  /\ calls' = Done(c)
  /\ jobs' = [jobs EXCEPT ![calls[c].jobId] = NoRef]
  /\ heap' = Collect(heap, jobs', calls')

OnSubmitFailure(c) ==
  /\ ret' = [Threw("handleUpdateStatus", "Failed to submit result onchain")
               EXCEPT !.job_id = calls[c].jobId]
  /\ calls' = Done(c)
  /\ UNCHANGED <<heap, jobs>>

\* POST /payment/submit-result has been answered
SubmitResponse(c, outcome) ==
  /\ calls[c].op = "handleUpdateStatus"
  /\ calls[c].pc = "awaitSubmit"
  /\ IF outcome = "ok"
     THEN /\ submitted' = submitted \cup
                            {calls[c].updatedJob.payment.blockchainIdentifier}
          /\ ret' = Updated(calls[c].jobId)
          /\ storeJob(Done(c), calls[c].jobId, calls[c].updatedJob)
     ELSE /\ UNCHANGED submitted
          /\ OnSubmitFailure(c)
  /\ UNCHANGED <<last_job_id, nextJobId, issued, triggers, now>>

\* -------------------------------------------------------------------- Next
Next ==
  \/ Tick
  \/ \E c \in Calls, p \in PurchaserIds, i \in InputDatas, u \in InstanceUrls :
       StartJobCall(c, p, i, u)
  \/ \E c \in Calls, o \in PaymentOutcomes, s \in 1 .. MaxStamp :
       StartJobPaymentResponse(c, o, s)
  \/ \E j \in JobIds, o \in TriggerOutcomes : TriggerRespond(j, o)
  \/ \E c \in Calls, j \in QueryIds : StatusCall(c, j)
  \/ \E c \in Calls : StatusPollStart(c)
  \/ \E c \in Calls, a \in QueryAnswers : PollAnswer(c, a)
  \/ \E c \in Calls : PollWake(c)
  \/ \E c \in Calls, j \in QueryIds, st \in StatusArgs, r \in ResultArgs,
        e \in ErrorArgs, cr \in BOOLEAN :
       HandleUpdateStatusCall(c, j, st, r, e, cr)
  \/ \E c \in Calls, o \in SubmitOutcomes : SubmitResponse(c, o)

Spec == Init /\ [][Next]_vars

\* check-payment-status.ts on its own: direct calls of pollPaymentStatus and
\* of interpretPaymentStatus, with a clock fine enough to tell the interval
\* from the timeout
NextPoll ==
  \/ Elapse
  \/ \E c \in Calls, t \in PollTimeouts, i \in PollIntervals : PollCall(c, t, i)
  \/ \E c \in Calls, a \in QueryAnswers : PollAnswer(c, a)
  \/ \E c \in Calls : PollWake(c)
  \/ \E s \in InterpretInputs : InterpretCall(s)

SpecPoll == Init /\ [][NextPoll]_vars

\* the event loop runs every timer that is due and every query is answered
SpecPollFair ==
  /\ SpecPoll
  /\ WF_vars(Elapse)
  /\ WF_vars(\E c \in Calls, a \in QueryAnswers : PollAnswer(c, a))
  /\ WF_vars(\E c \in Calls : PollWake(c))

\* ---------------------------------------------------- triggerInternalWebhook
WebhookPaths == {Undefined, "paywall"}

\* `${instanceUrl}/webhook${pathSegment}/start_polling`
PollingUrl(instanceUrl, webhookPath) ==
  <<instanceUrl, "/webhook",
    IF Truthy(webhookPath) THEN <<"/", webhookPath>> ELSE <<>>,
    "/start_polling">>

\* WebhookTriggerResult
TriggerResult(success, error, call) ==
  [op |-> "triggerInternalWebhook", outcome |-> "returned",
   success |-> success, error |-> error,
   instanceUrl |-> call.url, jobId |-> call.jobId, pollingUrl |-> call.request]

\* a direct call of triggerInternalWebhook({ instanceUrl, webhookPath, jobId,
\* job }), up to its return or its await fetch
TriggerCall(c, instanceUrl, webhookPath, jobId) ==
  LET call == [IdleCall EXCEPT !.op = "triggerInternalWebhook",
                               !.pc = "webhook", !.url = instanceUrl,
                               !.jobId = jobId,
                               !.request = PollingUrl(instanceUrl, webhookPath)]
      state == triggerInternalWebhook(NoTrigger, instanceUrl, jobId, NoJob).state
  IN /\ Free(c)
     /\ IF state = "no_instance_url"
        THEN /\ ret' = TriggerResult(FALSE, "No instance URL provided",
                                     [call EXCEPT !.request = <<>>])
             /\ UNCHANGED calls
        ELSE IF state = "no_job_id"
        THEN /\ ret' = TriggerResult(FALSE, "No job ID provided",
                                     [call EXCEPT !.request = <<>>])
             /\ UNCHANGED calls
        ELSE /\ calls' = [calls EXCEPT ![c] = call]
             /\ UNCHANGED ret
     /\ UNCHANGED <<heap, jobs, last_job_id, nextJobId, issued, triggers,
                    submitted, now>>

\* answers to the POST: ok, a non-ok status whose text can be read, a non-ok
\* status whose text cannot be read, a rejected fetch
TriggerAnswers == {"ok", "http_error", "http_error_no_text", "exception"}

\* the error of the result for an answer that is not ok
TriggerError(answer) ==
  IF answer = "http_error" THEN "HTTP status: text" ELSE "error.message"

\* the POST has answered, or fetch or response.text() rejected and the catch
\* block took over
TriggerAnswer(c, answer) ==
  /\ calls[c].op = "triggerInternalWebhook"
  /\ calls[c].pc = "webhook"
  /\ ret' = IF answer = "ok" THEN TriggerResult(TRUE, EmptyString, calls[c])
            ELSE TriggerResult(FALSE, TriggerError(answer), calls[c])
  /\ calls' = Done(c)
  /\ UNCHANGED <<heap, jobs, last_job_id, nextJobId, issued, triggers,
                 submitted, now>>

NextTrigger ==
  \/ Tick
  \/ \E c \in Calls, u \in InstanceUrls, w \in WebhookPaths, j \in QueryIds :
       TriggerCall(c, u, w, j)
  \/ \E c \in Calls, a \in TriggerAnswers : TriggerAnswer(c, a)

SpecTrigger == Init /\ [][NextTrigger]_vars

\* --------------------------------------------------------- generateInputHash
\* a direct call of generateInputHash(identifierFromPurchaser, inputData)
\* with an object
HashCall(identifierFromPurchaser, inputData) ==
  /\ ret' = [op |-> "generateInputHash",
             identifierFromPurchaser |-> identifierFromPurchaser,
             inputData |-> inputData,
             hash |-> generateInputHash(identifierFromPurchaser, inputData)]
  /\ UNCHANGED <<calls, heap, jobs, last_job_id, nextJobId, issued, triggers,
                 submitted, now>>

NextHash == \E p \in PurchaserIds, i \in HashInputs : HashCall(p, i)

SpecHash == Init /\ [][NextHash]_vars

\* -------------------------------------------------------- checkPaymentStatus
\* a payment record of the service, as far as the callers read it
PaymentRecord(blockchainIdentifier, onChainState) ==
  [blockchainIdentifier |-> blockchainIdentifier, onChainState |-> onChainState]

PaymentIdentifiers == {"b1", "b2"}

\* what data.payments or data.Payments may hold: an array of records, or
\* nothing that is an array
ArrayOf(items) == [isArray |-> TRUE, items |-> items]
NoList == [isArray |-> FALSE, items |-> <<>>]

PaymentLists ==
  {NoList, ArrayOf(<<>>), ArrayOf(<<PaymentRecord("b1", "FundsLocked")>>),
   ArrayOf(<<PaymentRecord("b2", Null), PaymentRecord("b1", "Processing")>>)}

\* answers of GET /payment/: not ok (or fetch rejected), or a parsed body
\* with the two lists under data and, when the body is itself a payment
\* object, its own blockchainIdentifier and onChainState
StatusBodies ==
  [ok : BOOLEAN, payments : PaymentLists, Payments : PaymentLists,
   blockchainIdentifier : {Undefined, "b1"}, onChainState : {"FundsLocked"}]

\* PaymentStatus | null
FoundPayment(record) == [isNull |-> FALSE, record |-> record]
NullPayment == [isNull |-> TRUE, record |-> PaymentRecord(Undefined, Undefined)]

\* list.find(p => p.blockchainIdentifier === paymentIdentifier) || null
FindPayment(items, paymentIdentifier) ==
  IF \E k \in 1 .. Len(items) : items[k].blockchainIdentifier = paymentIdentifier
  THEN FoundPayment(
         items[CHOOSE k \in 1 .. Len(items) :
                 /\ items[k].blockchainIdentifier = paymentIdentifier
                 /\ \A m \in 1 .. k - 1 :
                      items[m].blockchainIdentifier # paymentIdentifier])
  ELSE NullPayment

\* the payment checkPaymentStatus picks from a parsed body; a body that is
\* itself a payment object is returned whole
PickPayment(result, paymentIdentifier) ==
  IF result.payments.isArray
  THEN FindPayment(result.payments.items, paymentIdentifier)
  ELSE IF result.Payments.isArray
  THEN FindPayment(result.Payments.items, paymentIdentifier)
  ELSE IF result.blockchainIdentifier = paymentIdentifier
  THEN FoundPayment(PaymentRecord(result.blockchainIdentifier,
                                  result.onChainState))
  ELSE NullPayment

\* checkPaymentStatus up to its await: GET /payment/?network=... is sent
CheckPaymentCall(c, paymentIdentifier) ==
  /\ Free(c)
  /\ calls' = [calls EXCEPT ![c] =
                 [IdleCall EXCEPT !.op = "checkPaymentStatus",
                                  !.pc = "status",
                                  !.pid = paymentIdentifier]]
  /\ UNCHANGED <<ret, heap, jobs, last_job_id, nextJobId, issued, triggers,
                 submitted, now>>

\* the GET has answered: 'status check failed' is thrown when the answer is
\* not ok, else the payment picked from the parsed body is returned
CheckPaymentResponse(c, result) ==
  /\ calls[c].op = "checkPaymentStatus"
  /\ calls[c].pc = "status"
  /\ ret' = [op |-> "checkPaymentStatus",
             outcome |-> IF result.ok THEN "returned" ELSE "threw",
             paymentIdentifier |-> calls[c].pid,
             body |-> result,
             payment |-> IF result.ok THEN PickPayment(result, calls[c].pid)
                         ELSE NullPayment]
  /\ calls' = Done(c)
  /\ UNCHANGED <<heap, jobs, last_job_id, nextJobId, issued, triggers,
                 submitted, now>>

NextCheck ==
  \/ \E c \in Calls, p \in PaymentIdentifiers : CheckPaymentCall(c, p)
  \/ \E c \in Calls, b \in StatusBodies : CheckPaymentResponse(c, b)

SpecCheck == Init /\ [][NextCheck]_vars

\* ------------------------------------------------------------ createPurchase
\* a JS string, as the sequence of its characters, and a JS number
Str(text) == [type |-> "string", text |-> text]
Num(value) == [type |-> "number", value |-> value]

DigitChars == <<"0", "1", "2", "3", "4", "5", "6", "7", "8", "9">>

RECURSIVE Decimal(_)
Decimal(n) ==
  IF n < 10 THEN <<DigitChars[n + 1]>>
  ELSE Decimal(n \div 10) \o <<DigitChars[(n % 10) + 1]>>

\* String(v): a string is returned as it is, a number as its decimal digits
StringOf(v) == IF v.type = "string" THEN v ELSE Str(Decimal(v.value))

\* time fields of an invoice response: PaymentResponse declares them as
\* strings; the service sends epoch milliseconds, tests use ISO dates
TimeValues ==
  {Str(<<"1", "7", "0", "0">>), Str(<<"2", "0", "2", "4", "-", "0", "3", "Z">>)}

\* paymentResponse.data, as far as createPurchase reads it
PaymentDatas ==
  [blockchainIdentifier : {Str(<<"b", "1">>), Str(<<"b", "2">>)},
   payByTime : TimeValues, submitResultTime : TimeValues,
   unlockTime : TimeValues, externalDisputeUnlockTime : TimeValues,
   inputHash : {Str(<<"h", "1">>), Str(<<"h", "2">>)}]

PurchaserArgs == {Str(<<"a", "b">>), Str(<<"0", "1">>)}

\* the request body createPurchase builds
PurchaseRequestFromClock(paymentData, identifierFromPurchaser) ==
  [identifierFromPurchaser |-> identifierFromPurchaser,
   paymentType |-> "Web3CardanoV1",
   blockchainIdentifier |-> paymentData.blockchainIdentifier,
   payByTime |-> StringOf(Num(now)),
   submitResultTime |-> StringOf(paymentData.submitResultTime),
   unlockTime |-> StringOf(paymentData.unlockTime),
   externalDisputeUnlockTime |-> StringOf(paymentData.externalDisputeUnlockTime),
   inputHash |-> paymentData.inputHash]

PurchaseRequest(paymentData, identifierFromPurchaser) ==
  [identifierFromPurchaser |-> identifierFromPurchaser,
   paymentType |-> "Web3CardanoV1",
   blockchainIdentifier |-> paymentData.blockchainIdentifier,
   payByTime |-> StringOf(paymentData.payByTime),
   submitResultTime |-> StringOf(paymentData.submitResultTime),
   unlockTime |-> StringOf(paymentData.unlockTime),
   externalDisputeUnlockTime |-> StringOf(paymentData.externalDisputeUnlockTime),
   inputHash |-> paymentData.inputHash]

\* createPurchase up to its await: the body is built and POSTed to /purchase/
CreatePurchaseCall(c, paymentData, identifierFromPurchaser) ==
  /\ Free(c)
  /\ calls' = [calls EXCEPT ![c] =
                 [IdleCall EXCEPT
                    !.op = "createPurchase", !.pc = "purchase",
                    !.input = paymentData,
                    !.request =
                      PurchaseRequest(paymentData, identifierFromPurchaser)]]
  /\ UNCHANGED <<ret, heap, jobs, last_job_id, nextJobId, issued, triggers,
                 submitted, now>>

PurchaseOutcomes == {"ok", "http_error", "network_error"}

\* the POST has answered: the parsed body is returned, or the error is
\* rethrown as 'purchase creation failed: ...'
PurchaseResponse(c, outcome) ==
  /\ calls[c].op = "createPurchase"
  /\ calls[c].pc = "purchase"
  /\ ret' = [op |-> "createPurchase",
             outcome |-> IF outcome = "ok" THEN "returned" ELSE "threw",
             paymentData |-> calls[c].input,
             request |-> calls[c].request]
  /\ calls' = Done(c)
  /\ UNCHANGED <<heap, jobs, last_job_id, nextJobId, issued, triggers,
                 submitted, now>>

NextPurchase ==
  \/ Tick
  \/ \E c \in Calls, d \in PaymentDatas, p \in PurchaserArgs :
       CreatePurchaseCall(c, d, p)
  \/ \E c \in Calls, o \in PurchaseOutcomes : PurchaseResponse(c, o)

SpecPurchase == Init /\ [][NextPurchase]_vars

\* ------------------------------------------- the node's updateStatus operation
\* what the updateStatus branch of execute pushed to returnData (outcome
\* "returned") or threw; given is the jobId parameter of the node
UpdateStatusReturn(outcome, error, jobId, given) ==
  [op |-> "updateStatus", outcome |-> outcome, error |-> error,
   job_id |-> jobId, given |-> given]

\* if (!jobId && storage.last_job_id) jobId = storage.last_job_id
JobIdAsGiven(jobId) == jobId

JobIdOrLast(jobId) ==
  IF jobId = NoId /\ last_job_id # NoId THEN last_job_id ELSE jobId

\* execute, operation updateStatus, up to `await this.getCredentials(...)`:
\* the job id falls back to last_job_id, the result is read for completed
\* and the error for failed, status and result are validated
UpdateStatusOperation(c, given, status, resultParam, errorParam) ==
  LET jobId == JobIdOrLast(given)
      result == IF status = JOB_STATUS.COMPLETED THEN resultParam ELSE Undefined
      error == IF status = JOB_STATUS.FAILED THEN errorParam ELSE Undefined
  IN
  /\ Free(c)
  /\ IF jobId = NoId
     THEN /\ ret' = UpdateStatusReturn("threw", "Job ID is required", jobId, given)
          /\ UNCHANGED calls
     ELSE IF status \notin VALID_JOB_STATUSES
     THEN /\ ret' = UpdateStatusReturn("threw", "Invalid status value", jobId, given)
          /\ UNCHANGED calls
     ELSE IF status = JOB_STATUS.COMPLETED /\ ~Truthy(result)
     THEN /\ ret' = UpdateStatusReturn("threw", "Result data is required", jobId, given)
          /\ UNCHANGED calls
     ELSE /\ calls' = [calls EXCEPT ![c] =
                [IdleCall EXCEPT !.op = "updateStatus",
                                 !.pc = "awaitCredentials",
                                 !.jobId = jobId, !.given = given,
                                 !.status = status, !.result = result,
                                 !.error = error]]
          /\ UNCHANGED ret
  /\ UNCHANGED <<heap, jobs, last_job_id, nextJobId, issued, triggers,
                 submitted, now>>

\* the credentials have arrived: config is built and updateJobStatus runs up
\* to `await submitResultToPaymentService(...)`, or to its return when
\* nothing is submitted; a null return makes the node throw
UpdateStatusCredentials(c) ==
  LET call == calls[c]
      ref == getJob(call.jobId)
      job == heap[ref]
      updatedJob == UpdatedJob(job, call.status, call.result, call.error)
  IN
  /\ call.op = "updateStatus"
  /\ call.pc = "awaitCredentials"
  /\ IF ref = NoRef
     THEN /\ ret' = UpdateStatusReturn("threw", "Job not found", call.jobId,
                                       call.given)
          /\ calls' = Done(c)
          /\ UNCHANGED <<heap, jobs>>
     ELSE IF SubmitsOnchain(job, call.status, call.result, TRUE)
     THEN /\ calls' = [calls EXCEPT ![c].pc = "awaitSubmit",
                                    ![c].config = TRUE,
                                    ![c].updatedJob = updatedJob]
          /\ UNCHANGED <<ret, heap, jobs>>
     ELSE /\ ret' = UpdateStatusReturn("returned", "", call.jobId, call.given)
          /\ storeJob(Done(c), call.jobId, updatedJob)
  /\ UNCHANGED <<last_job_id, nextJobId, issued, triggers, submitted, now>>

\* POST /payment/submit-result has been answered to updateJobStatus called
\* by the node: the copy is stored, or the error leaves execute
UpdateStatusSubmitResponse(c, outcome) ==
  /\ calls[c].op = "updateStatus"
  /\ calls[c].pc = "awaitSubmit"
  /\ IF outcome = "ok"
     THEN /\ submitted' = submitted \cup
                            {calls[c].updatedJob.payment.blockchainIdentifier}
          /\ ret' = UpdateStatusReturn("returned", "", calls[c].jobId,
                                       calls[c].given)
          /\ storeJob(Done(c), calls[c].jobId, calls[c].updatedJob)
     ELSE /\ ret' = UpdateStatusReturn("threw", "Failed to submit result onchain",
                                       calls[c].jobId, calls[c].given)
          /\ calls' = Done(c)
          /\ UNCHANGED <<submitted, heap, jobs>>
  /\ UNCHANGED <<last_job_id, nextJobId, issued, triggers, now>>

\* the node with its storage: jobs are started, asked for their status and
\* updated through the updateStatus operation
NodeJobIds == {NoId} \cup StoreIds
NodeStatuses == {JOB_STATUS.RUNNING, JOB_STATUS.COMPLETED, "bogus"}
NodeAnswers == {"FundsLocked", "absent"}

NextNode ==
  \/ Tick
  \/ \E c \in Calls :
       StartJob(c, ShortPurchaser, ObjectInput, EmptyString, MaxJobs + 1)
  \/ \E c \in Calls, o \in PaymentOutcomes : StartJobPaymentResponse(c, o, MaxStamp)
  \/ \E c \in Calls, j \in NodeJobIds : StatusCall(c, j)
  \/ \E c \in Calls : StatusPollStart(c)
  \/ \E c \in Calls, a \in NodeAnswers : PollAnswer(c, a)
  \/ \E c \in Calls : PollWake(c)
  \/ \E c \in Calls, j \in NodeJobIds, st \in NodeStatuses, r \in ResultArgs :
       UpdateStatusOperation(c, j, st, r, Undefined)
  \/ \E c \in Calls : UpdateStatusCredentials(c)
  \/ \E c \in Calls, o \in SubmitOutcomes : UpdateStatusSubmitResponse(c, o)

SpecNode == Init /\ [][NextNode]_vars

\* --------------------------------------------- handlers run against each other
\* the node's operations as n8n runs them for requests that arrive while an
\* earlier one is suspended at an await: one job is started, then status
\* checks and status updates for it interleave at their awaits
RaceStatuses == {JOB_STATUS.RUNNING, JOB_STATUS.COMPLETED, JOB_STATUS.FAILED}
RaceAnswers == {"FundsLocked", "absent"}

NextRace ==
  \/ Tick
  \/ \E c \in Slots : StartJobCall(c, ShortPurchaser, ObjectInput, EmptyString)
  \/ \E c \in Slots, o \in PaymentOutcomes : StartJobPaymentResponse(c, o, MaxStamp)
  \/ \E c \in Slots, j \in JobIds : StatusCall(c, j)
  \/ \E c \in Slots : StatusPollStart(c)
  \/ \E c \in Slots, a \in RaceAnswers : PollAnswer(c, a)
  \/ \E c \in Slots : PollWake(c)
  \/ \E c \in Slots, j \in JobIds, st \in RaceStatuses, r \in ResultArgs,
        cr \in BOOLEAN :
       HandleUpdateStatusCall(c, j, st, r, Undefined, cr)
  \/ \E c \in Slots, o \in SubmitOutcomes : SubmitResponse(c, o)

SpecRace == Init /\ [][NextRace]_vars

\* ------------------------------------------------------------------ claims
\* the job record the store holds under jobId after the step
StoredJobAfter(jobId) == StoredJob(jobId)'

\* the step leaves every stored job record as it was
StoreKept == \A j \in JobIds : StoredJobAfter(j) = StoredJob(j)

\* C1: when the submit-result request of a completed-update fails (HTTP
\* error or transport error), the call throws and the stored job record is
\* what it was before: same status, no result written.
C1_SubmitFailureKeepsStoredJob ==
  [][\A c \in Calls, o \in SubmitOutcomes \ {"ok"} :
       SubmitResponse(c, o) =>
         /\ ret'.outcome = "threw"
         /\ ret'.job_id = calls[c].jobId
         /\ StoreKept
         /\ UNCHANGED <<jobs, last_job_id, submitted>>]_vars

C1_Witness ==
  /\ ret.op = "handleUpdateStatus"
  /\ ret.outcome = "threw"
  /\ StoredJob(ret.job_id).status = JOB_STATUS.RUNNING
  /\ StoredJob(ret.job_id).result = Undefined
  /\ StoredJob(ret.job_id).payment.blockchainIdentifier # 0

\* C2: with a payment config supplied, a step of the status update leaves a
\* job newly stored as completed only when a submit-result request carrying
\* the job's blockchainIdentifier has succeeded, whatever the result argument.
C2_CompletionOnlyAfterSubmit ==
  [][\A j \in JobIds :
       /\ \/ \E c \in Calls, st \in StatusArgs, r \in ResultArgs, e \in ErrorArgs :
               HandleUpdateStatusCall(c, j, st, r, e, TRUE)
          \/ \E c \in Calls, o \in SubmitOutcomes :
               calls[c].jobId = j /\ SubmitResponse(c, o)
       /\ StoredJobAfter(j) # StoredJob(j)
       /\ StoredJobAfter(j).status = JOB_STATUS.COMPLETED
       => StoredJob(j).payment.blockchainIdentifier \in submitted']_vars

C4_StartedJobIsStored ==
  [][/\ \A c \in Calls, j \in JobIds, s \in 1 .. MaxStamp :
          calls[c].jobId = j /\ StartJobPaymentResponse(c, "ok", s) =>
            /\ ret'.op = "handleStartJob" /\ ret'.status = "success"
            /\ ret'.job_id = j
            /\ StoredJobAfter(j).status = JOB_STATUS.AWAITING_PAYMENT
            /\ StoredJobAfter(j).payment.blockchainIdentifier =
                 Invoice(issued + 1, s).blockchainIdentifier
            /\ StoredJobAfter(j).job_id = j
     /\ \A j \in JobIds : getJob(j) # NoRef => jobs'[j] # NoRef
     /\ \A c \in Calls, j \in JobIds :
          getJob(j) # NoRef /\ StatusCall(c, j) /\ ret' # ret =>
            ret'.error # "job_not_found"]_vars

C4_Witness ==
  /\ ret.op = "handleStatusResponse"
  /\ ret.job_id \in JobIds
  /\ ret.error = ""
  /\ ret.status = JOB_STATUS.AWAITING_PAYMENT
  /\ StoredJob(ret.job_id).payment.blockchainIdentifier # 0

\* C5: when invoice creation fails, handleStartJob writes no job record
\* (jobs and last_job_id are as before) and its error response carries the
\* generated job_id and the purchaser identifier.
C5_FailedInvoiceStoresNothing ==
  [][\A c \in Calls, o \in PaymentOutcomes \ {"ok"}, s \in 1 .. MaxStamp :
       StartJobPaymentResponse(c, o, s) =>
         /\ UNCHANGED <<heap, jobs, last_job_id>>
         /\ ret'.op = "handleStartJob"
         /\ ret'.error = "job_creation_failed"
         /\ ret'.job_id = calls[c].jobId
         /\ ret'.identifierFromPurchaser = calls[c].pid]_vars

C5_Witness ==
  /\ ret.op = "handleStartJob"
  /\ ret.error = "job_creation_failed"
  /\ ret.job_id \in JobIds
  /\ Len(ret.identifierFromPurchaser) >= MinHexLen
  /\ getJob(ret.job_id) = NoRef
  /\ last_job_id = NoId

\* C6: every call of handleStartJob that has ended has invoked
\* triggerInternalWebhook exactly once, with the job record exactly when
\* the job was created.
C6_EveryStartTriggersOnce ==
  ret.op = "handleStartJob" /\ ret.job_id \in JobIds =>
    /\ triggers[ret.job_id].invocations = 1
    /\ (triggers[ret.job_id].job # NoJob) <=> (ret.status = "success")

\* C7: whatever the start_polling target answers (success, HTTP error,
\* exception), the result handleStartJob returned and the store stay as
\* they are; and the result and the stored job handleStartJob produces do
\* not depend on the instance URL.
C7_TriggerOutcomeNotSurfaced ==
  [][/\ \A j \in JobIds, o \in TriggerOutcomes :
          TriggerRespond(j, o) => UNCHANGED <<ret, heap, jobs, last_job_id>>
     /\ \A c \in Calls, j \in JobIds, o \in PaymentOutcomes, s \in 1 .. MaxStamp :
          calls[c].jobId = j /\ StartJobPaymentResponse(c, o, s) =>
            /\ ret' = StartJobResult([calls[c] EXCEPT !.url = EmptyString], o)
            /\ o = "ok" =>
                 StoredJobAfter(j) =
                   NewJob([calls[c] EXCEPT !.url = EmptyString],
                          Invoice(issued + 1, s), now)]_vars

C7_Witness ==
  /\ ret.op = "handleStartJob"
  /\ ret.status = "success"
  /\ triggers[ret.job_id].state = "resolved"
  /\ StoredJob(ret.job_id).status = JOB_STATUS.AWAITING_PAYMENT

\* C8: handleStartJob returns in the run in which it calls
\* triggerInternalWebhook, while the request to start_polling is still in
\* flight: no answer of the target is needed for the return.
C8_ReturnsWithoutAwaitingTrigger ==
  [][\A c \in Calls, o \in PaymentOutcomes, s \in 1 .. MaxStamp :
       StartJobPaymentResponse(c, o, s) =>
         /\ calls'[c].pc = "idle"
         /\ ret'.op = "handleStartJob"
         /\ ret'.outcome = "returned"
         /\ ret'.job_id = calls[c].jobId
         /\ calls[c].url # EmptyString =>
              triggers'[calls[c].jobId].state = "inflight"]_vars

C8_Witness ==
  /\ ret.op = "handleStartJob"
  /\ ret.outcome = "returned"
  /\ ret.job_id \in JobIds
  /\ triggers[ret.job_id].state = "inflight"
  /\ triggers[ret.job_id].requests = 1

\* C9 (as stated): for a job held as awaiting_payment, every success
\* classification of the poll (FundsLocked, ResultSubmitted, Withdrawn)
\* makes handleStatusResponse store the job as running.
C9_AnySuccessSetsRunning ==
  [][\A c \in Calls, j \in JobIds, a \in SuccessStates :
       /\ calls[c].jobId = j
       /\ HeldJob(c).status = JOB_STATUS.AWAITING_PAYMENT
       /\ PollAnswer(c, a)
       => StoredJobAfter(j).status = JOB_STATUS.RUNNING]_vars

\* C9 (amended): for a job held as awaiting_payment, a poll that ends with
\* FundsLocked makes handleStatusResponse set the job to running, store it
\* and answer running; a poll that ends with ResultSubmitted or Withdrawn
\* leaves the stored job as it was and answers awaiting_payment.
C9_FundsLockedSetsRunning ==
  [][\A c \in Calls, j \in JobIds, a \in SuccessStates :
       /\ calls[c].jobId = j
       /\ HeldJob(c).status = JOB_STATUS.AWAITING_PAYMENT
       /\ PollAnswer(c, a)
       => IF a = "FundsLocked"
            THEN /\ StoredJobAfter(j).status = JOB_STATUS.RUNNING
                 /\ StoredJobAfter(j).updated_at = now
                 /\ ret'.status = JOB_STATUS.RUNNING
                 /\ ret'.poll = "payment confirmed"
            ELSE /\ StoreKept
                 /\ ret'.status = JOB_STATUS.AWAITING_PAYMENT
                 /\ ret'.poll = "payment already processed"]_vars

C9_Witness ==
  /\ ret.op = "handleStatusResponse"
  /\ ret.poll = "payment confirmed"
  /\ ret.status = JOB_STATUS.RUNNING
  /\ StoredJob(ret.job_id).status = JOB_STATUS.RUNNING

\* C10: when the poll ends with one of the five error states or with a
\* timeout, handleStatusResponse leaves every stored job as it was and
\* answers the status it held (awaiting_payment); no step of the poll
\* stores a job as failed.
C10_ErrorOrTimeoutKeepsAwaiting ==
  [][\A c \in Calls :
       /\ (/\ HeldJob(c).status = JOB_STATUS.AWAITING_PAYMENT
           /\ \/ \E a \in ErrorStates : PollAnswer(c, a)
              \/ (StatusPollStart(c) \/ PollWake(c)) /\ calls'[c].pc = "idle")
          => /\ StoreKept
             /\ ret'.poll \in {"payment failed", "timeout"}
             /\ ret'.status = JOB_STATUS.AWAITING_PAYMENT
       /\ (\/ \E a \in QueryAnswers : PollAnswer(c, a)
           \/ StatusPollStart(c)
           \/ PollWake(c))
          => \A j \in JobIds :
               StoredJobAfter(j).status = JOB_STATUS.FAILED =>
                 StoredJob(j).status = JOB_STATUS.FAILED]_vars

C10_Witness ==
  /\ ret.op = "handleStatusResponse"
  /\ ret.poll = "payment failed"
  /\ ret.status = JOB_STATUS.AWAITING_PAYMENT
  /\ StoredJob(ret.job_id).status = JOB_STATUS.AWAITING_PAYMENT

\* C11: handleStatusResponse called for a stored job whose status is not
\* awaiting_payment answers at once with that status: no handler is left
\* suspended on a payment-service query and the stored record is unchanged,
\* on every such call.
C11_NoPollUnlessAwaitingPayment ==
  [][\A c \in Calls, j \in JobIds :
       /\ getJob(j) # NoRef
       /\ StoredJob(j).status # JOB_STATUS.AWAITING_PAYMENT
       /\ StatusCall(c, j)
       => /\ UNCHANGED <<calls, heap, jobs, submitted>>
          /\ StoreKept
          /\ ret'.op = "handleStatusResponse"
          /\ ret'.poll = "none"
          /\ ret'.status = StoredJob(j).status]_vars

C11_Witness ==
  /\ ret.op = "handleStatusResponse"
  /\ ret.job_id \in JobIds
  /\ ret.poll = "none"
  /\ ret.status = JOB_STATUS.RUNNING
  /\ StoredJob(ret.job_id).status = JOB_STATUS.RUNNING
  /\ \A c \in Calls : calls[c].pc = "idle"

\* position of a status on the path pending, awaiting_payment,
\* awaiting_input, running, completed
StatusRank(status) ==
  CASE status = JOB_STATUS.PENDING -> 0
    [] status = JOB_STATUS.AWAITING_PAYMENT -> 1
    [] status = JOB_STATUS.AWAITING_INPUT -> 2
    [] status = JOB_STATUS.RUNNING -> 3
    [] OTHER -> 4

\* a move of the stored status the lifecycle allows: none, forward along the
\* path, or into failed; completed and failed are never left
ForwardMove(from, to) ==
  \/ to = from
  \/ /\ from \notin {JOB_STATUS.COMPLETED, JOB_STATUS.FAILED}
     /\ \/ to = JOB_STATUS.FAILED
        \/ StatusRank(to) > StatusRank(from)

\* C12: in every step the stored status of a job stays, moves forward along
\* pending, awaiting_payment, running, completed, or moves into failed; it
\* never moves backward and never leaves completed or failed.
C12_StatusOnlyMovesForward ==
  [][\A j \in JobIds :
       getJob(j) # NoRef =>
         ForwardMove(StoredJob(j).status, StoredJobAfter(j).status)]_vars

\* C13: every stored job whose status is completed has a result.
C13_CompletedHasResult ==
  \A j \in JobIds :
    StoredJob(j).status = JOB_STATUS.COMPLETED =>
      StoredJob(j).result \notin {Undefined, Null}

\* C14: every stored job whose status is failed has a non-empty error.
C14_FailedHasError ==
  \A j \in JobIds :
    StoredJob(j).status = JOB_STATUS.FAILED => Truthy(StoredJob(j).error)

\* C15: once a job is stored, no step changes its payment sub-record:
\* blockchainIdentifier, payByTime, submitResultTime, unlockTime,
\* externalDisputeUnlockTime and inputHash keep the values stored by
\* handleStartJob.
C15_PaymentNeverChanges ==
  [][\A j \in JobIds :
       getJob(j) # NoRef =>
         StoredJobAfter(j).payment = StoredJob(j).payment]_vars

C15_Witness ==
  \E j \in JobIds :
    /\ StoredJob(j).status = JOB_STATUS.COMPLETED
    /\ StoredJob(j).result = "r1"
    /\ StoredJob(j).payment.blockchainIdentifier \in submitted
    /\ StoredJob(j).payment.inputHash # NoHash
    /\ StoredJob(j).payment.payByTime = Invoice(1, 1).payByTime
    /\ StoredJob(j).updated_at > StoredJob(j).created_at

\* C16: interpretPaymentStatus classifies every argument: FundsLocked,
\* ResultSubmitted and Withdrawn are confirmed and end the polling; the five
\* error states are errors and end the polling; no status, a null state and
\* every other string are neither and keep the polling going; nothing is both
\* confirmed and an error.
C16_ClassificationExact ==
  ret.op = "interpretPaymentStatus" =>
    /\ ret.status \in SuccessStates =>
         /\ ret.out.isConfirmed /\ ~ret.out.isError
         /\ ~ret.out.shouldContinuePolling
    /\ ret.status \in ErrorStates =>
         /\ ~ret.out.isConfirmed /\ ret.out.isError
         /\ ~ret.out.shouldContinuePolling
    /\ ret.status \notin SuccessStates \cup ErrorStates =>
         /\ ~ret.out.isConfirmed /\ ~ret.out.isError
         /\ ret.out.shouldContinuePolling
    /\ ~(ret.out.isConfirmed /\ ret.out.isError)

C16_Witness ==
  /\ ret.op = "interpretPaymentStatus"
  /\ ret.status = "ResultSubmitted"
  /\ ret.out.isConfirmed
  /\ ~ret.out.shouldContinuePolling

\* C17: when a query of pollPaymentStatus finds the payment in a terminal
\* state, the poller returns at once: the result carries that state, the
\* observed record and success exactly for the success states, and the run
\* sends no further query; the first query of a run with a positive timeout
\* is query number one, so a terminal
\* state on the first query means one query in all.
C17_TerminalStopsPolling ==
  [][/\ \A c \in Calls, a \in SuccessStates \cup ErrorStates :
          calls[c].op = "pollPaymentStatus" /\ PollAnswer(c, a)
          => /\ calls'[c].pc = "idle"
             /\ ret'.op = "pollPaymentStatus"
             /\ ret'.result.status = a
             /\ ret'.result.payment = a
             /\ ret'.result.success = (a \in SuccessStates)
             /\ ret'.queries = calls[c].queries
     /\ \A c \in Calls, t \in PollTimeouts \ {0}, i \in PollIntervals :
          PollCall(c, t, i) => calls'[c].pc = "query" /\ calls'[c].queries = 1
    ]_vars

C17_Witness ==
  /\ ret.op = "pollPaymentStatus"
  /\ ret.queries = 1
  /\ ret.result.status = "Withdrawn"
  /\ ret.result.payment = "Withdrawn"
  /\ ret.result.success
  /\ \A c \in Calls : calls[c].pc = "idle"

\* C18: a query that fails (transport error or non-ok HTTP answer) neither
\* ends pollPaymentStatus nor reaches its caller: nothing is returned, the
\* interval timer is set, and when it fires before the deadline the next
\* query is sent, so a terminal state seen by a later query is still returned.
C18_FailedQueryContinues ==
  [][\A c \in Calls :
       calls[c].op = "pollPaymentStatus" =>
         /\ PollAnswer(c, "failed")
            => /\ ret' = ret
               /\ calls'[c].op = "pollPaymentStatus"
               /\ calls'[c].pc = "sleep"
               /\ calls'[c].wakeAt = now + calls[c].intervalMs
               /\ calls'[c].last = calls[c].last
               /\ calls'[c].queries = calls[c].queries
         /\ /\ calls[c].caught
            /\ now - calls[c].startTime < calls[c].timeoutMs
            /\ PollWake(c)
            => /\ ret' = ret
               /\ calls'[c].pc = "query"
               /\ calls'[c].queries = calls[c].queries + 1]_vars

C18_Witness ==
  /\ ret.op = "pollPaymentStatus"
  /\ ret.caught
  /\ ret.queries >= 2
  /\ ret.result.success
  /\ ret.result.status = "FundsLocked"
  /\ ret.result.payment = "FundsLocked"

\* C19: pollPaymentStatus remembers the record of the most recent query that
\* found the payment: it starts with none, a found record replaces it, a
\* query that finds nothing or fails leaves it; when the deadline has passed
\* the result has status 'timeout', success false and that record.
C19_TimeoutCarriesLastObservation ==
  [][\A c \in Calls :
       /\ \A t \in PollTimeouts, i \in PollIntervals :
            PollCall(c, t, i) => calls'[c].last = "none"
       /\ calls[c].op = "pollPaymentStatus" =>
            /\ \A a \in {Null, "Processing"} :
                 PollAnswer(c, a) => calls'[c].last = a
            /\ \A a \in {"absent", "failed"} :
                 PollAnswer(c, a) => calls'[c].last = calls[c].last
            /\ PollWake(c) /\ now - calls[c].startTime >= calls[c].timeoutMs
               => /\ ret'.op = "pollPaymentStatus"
                  /\ ret'.result.status = "timeout"
                  /\ ret'.result.success = FALSE
                  /\ ret'.result.payment = calls[c].last
                  /\ ret'.queries = calls[c].queries
                  /\ calls'[c].pc = "idle"]_vars

C19_Witness ==
  /\ ret.op = "pollPaymentStatus"
  /\ ret.result.status = "timeout"
  /\ ~ret.result.success
  /\ ret.result.payment = "Processing"
  /\ ret.caught
  /\ ret.queries >= 3

Ceil(a, b) == (a + b - 1) \div b

C21_InitialDelayBeforeFirstQuery ==
  [][\A c \in Calls, t \in PollTimeouts, i \in PollIntervals :
       PollCall(c, t, i) => calls'[c].pc # "query" /\ calls'[c].queries = 0
    ]_vars

ListedIn(list, paymentIdentifier) ==
  \E k \in 1 .. Len(list.items) :
    list.items[k].blockchainIdentifier = paymentIdentifier

\* C23: checkPaymentStatus, given an ok answer, returns the record with the
\* requested blockchainIdentifier whenever data.payments or data.Payments
\* holds it, and returns null exactly when neither list holds it.
C23_FoundUnderEitherList ==
  ret.op = "checkPaymentStatus" /\ ret.outcome = "returned" =>
    /\ ListedIn(ret.body.payments, ret.paymentIdentifier)
       \/ ListedIn(ret.body.Payments, ret.paymentIdentifier)
       => /\ ~ret.payment.isNull
          /\ ret.payment.record.blockchainIdentifier = ret.paymentIdentifier
    /\ ret.payment.isNull
       <=> /\ ~ListedIn(ret.body.payments, ret.paymentIdentifier)
           /\ ~ListedIn(ret.body.Payments, ret.paymentIdentifier)

\* C24: the input hash stored in a job created by handleStartJob is the hash
\* of the purchaser identifier stored in that job (the one sent to the payment
\* service as identifierFromPurchaser) together with the job's input data.
C24_HashOfStoredIdentifier ==
  \A j \in JobIds :
    getJob(j) # NoRef =>
      StoredJob(j).payment.inputHash
        = generateInputHash(StoredJob(j).identifier_from_purchaser,
                            StoredJob(j).input_data)

\* C25: the happy path: the job handleStartJob stores after a successful
\* invoice is awaiting_payment; a status check whose poll observes
\* FundsLocked stores it as running; an update of the running job to
\* completed with a result and without credentials stores status completed
\* with exactly that result, returns at once and sends no submit-result
\* request.
C25_HappyPath ==
  [][/\ \A c \in Calls, j \in JobIds, s \in 1 .. MaxStamp :
          calls[c].jobId = j /\ StartJobPaymentResponse(c, "ok", s)
          => StoredJobAfter(j).status = JOB_STATUS.AWAITING_PAYMENT
     /\ \A c \in Calls, j \in JobIds :
          /\ calls[c].jobId = j
          /\ HeldJob(c).status = JOB_STATUS.AWAITING_PAYMENT
          /\ PollAnswer(c, "FundsLocked")
          => StoredJobAfter(j).status = JOB_STATUS.RUNNING
     /\ \A c \in Calls, j \in JobIds, e \in ErrorArgs :
          /\ getJob(j) # NoRef
          /\ StoredJob(j).status = JOB_STATUS.RUNNING
          /\ HandleUpdateStatusCall(c, j, JOB_STATUS.COMPLETED, "r1", e, FALSE)
          => /\ StoredJobAfter(j).status = JOB_STATUS.COMPLETED
             /\ StoredJobAfter(j).result = "r1"
             /\ ret'.op = "handleUpdateStatus"
             /\ ret'.status = "success"
             /\ calls'[c].pc = "idle"
             /\ \A d \in Calls :
                  calls'[d].pc = "awaitSubmit" => calls[d].pc = "awaitSubmit"
             /\ submitted' = submitted]_vars

C25_Witness ==
  /\ ret.op = "handleUpdateStatus"
  /\ ret.status = "success"
  /\ ret.job_id \in JobIds
  /\ StoredJob(ret.job_id).status = JOB_STATUS.COMPLETED
  /\ StoredJob(ret.job_id).result = "r1"
  /\ StoredJob(ret.job_id).payment.blockchainIdentifier # 0
  /\ StoredJob(ret.job_id).updated_at > StoredJob(ret.job_id).created_at
  /\ submitted = {}
  /\ \A c \in Calls : calls[c].pc = "idle"

\* the keys of an object whose value is not undefined
DefinedKeys(object) ==
  {object.entries[k][1] :
     k \in {m \in 1 .. Len(object.entries) :
              object.entries[m][2].kind # "undefined"}}

\* the value an object holds under a key
Member(object, key) ==
  object.entries[CHOOSE k \in 1 .. Len(object.entries) :
                   object.entries[k][1] = key][2]

\* two values differ at most in the order of object keys, at any depth, and
\* in members whose value is undefined
RECURSIVE SameUpToOrder(_, _)
SameUpToOrder(a, b) ==
  IF a.kind = "object" /\ b.kind = "object"
  THEN /\ DefinedKeys(a) = DefinedKeys(b)
       /\ \A key \in DefinedKeys(a) :
            SameUpToOrder(Member(a, key), Member(b, key))
  ELSE a = b

\* C26: generateInputHash does not depend on key order: two input objects
\* that differ only in the order of their keys, at any depth, or in members
\* whose value is undefined, give the same hash with the same identifier;
\* another identifier or another member value gives another hash input.
C26_HashIndependentOfKeyOrder ==
  ret.op = "generateInputHash" =>
    \A p \in PurchaserIds, i \in HashInputs :
      (generateInputHash(p, i) = ret.hash)
        <=> /\ p = ret.identifierFromPurchaser
            /\ SameUpToOrder(ObjV(i.entries), ObjV(ret.inputData.entries))

C28_JobsAreNeverRemoved ==
  [][\A j \in JobIds :
       getJob(j) # NoRef
       => /\ jobs'[j] # NoRef
          /\ StoredJobAfter(j).job_id = j
          /\ StoredJobAfter(j).created_at = StoredJob(j).created_at]_vars

C28_Witness ==
  /\ ret.op = "handleStatusResponse"
  /\ ret.job_id \in JobIds
  /\ ret.status = JOB_STATUS.FAILED
  /\ StoredJob(ret.job_id).status = JOB_STATUS.FAILED
  /\ StoredJob(ret.job_id).job_id = ret.job_id
  /\ StoredJob(ret.job_id).payment.blockchainIdentifier # 0

\* C29: the result of a stored job changes only in a step that stores the
\* job as completed.
C29_ResultOnlyWithCompleted ==
  [][\A j \in JobIds :
       /\ getJob(j) # NoRef
       /\ StoredJobAfter(j).result # StoredJob(j).result
       => StoredJobAfter(j).status = JOB_STATUS.COMPLETED]_vars

\* C30: triggerInternalWebhook never raises: it returns success false with
\* an error when the instance URL or the job id is missing, and then sends
\* no request; once a request is sent, a non-ok answer and a rejected fetch
\* each come back as a returned result with success false, an ok answer as
\* success true.
C30_TriggerNeverRaises ==
  [][/\ \A c \in Calls, u \in InstanceUrls, w \in WebhookPaths, j \in QueryIds :
          TriggerCall(c, u, w, j)
          => IF u = EmptyString \/ j = NoId
               THEN /\ calls' = calls
                    /\ ret'.op = "triggerInternalWebhook"
                    /\ ret'.outcome = "returned"
                    /\ ret'.success = FALSE
                    /\ ret'.error # EmptyString
                    /\ ret'.pollingUrl = <<>>
               ELSE /\ ret' = ret
                    /\ calls'[c].pc = "webhook"
     /\ \A c \in Calls, a \in TriggerAnswers :
          TriggerAnswer(c, a)
          => /\ ret'.op = "triggerInternalWebhook"
             /\ ret'.outcome = "returned"
             /\ ret'.success = (a = "ok")
             /\ a # "ok" => ret'.error # EmptyString]_vars

C30_Witness ==
  /\ ret.op = "triggerInternalWebhook"
  /\ ret.outcome = "returned"
  /\ ~ret.success
  /\ ret.error = "No job ID provided"
  /\ ret.instanceUrl = "https://n8n"
  /\ ret.jobId = NoId
  /\ \A c \in Calls : calls[c].pc = "idle"

\* C31: every change of a stored job is a copy-and-replace, so a job object
\* never changes under a handler that got it from getJob and is suspended
\* at an await: the record it holds stays what it read
C31_HeldObjectNeverChanges ==
  [][\A c \in Slots :
       (calls[c].ref # NoRef /\ calls'[c].ref # NoRef)
       => heap'[calls'[c].ref] = heap[calls[c].ref]]_vars

\* C32: a status request for a job in awaiting_payment performs a single
\* payment-service query: when handleStatusResponse returns after polling,
\* its run of pollPaymentStatus has sent exactly one status query
C32_SingleQueryPerStatusRequest ==
  [][\A c \in Slots :
       (calls[c].op = "handleStatusResponse" /\ calls'[c].pc = "idle")
       => calls[c].queries = 1]_vars

\* C33: pollPaymentStatus checks the deadline before every query: a query is
\* started only while less than the timeout has elapsed since the start (so
\* a timeout of zero starts none and returns the timeout result without a
\* payment record), and the timeout result is returned only when no query
\* of the run observed a terminal state
C33_DeadlineBeforeEveryQuery ==
  [][\A c \in Slots :
       /\ (calls'[c].pc = "query" /\ calls'[c].queries # calls[c].queries)
          => now' - calls'[c].startTime < calls'[c].timeoutMs
       /\ (calls[c].pc # "idle" /\ calls'[c].pc = "idle"
           /\ ret'.op = "pollPaymentStatus" /\ ret'.result.status = "timeout")
          => /\ ~PollTerminal(calls[c].last)
             /\ ret'.result.payment = calls[c].last
             /\ now - calls[c].startTime >= calls[c].timeoutMs
       /\ \A i \in PollIntervals :
            PollCall(c, 0, i)
            => /\ calls'[c].pc = "idle"
               /\ ret'.result.status = "timeout"
               /\ ret'.result.payment = "none"
               /\ ret'.queries = 0]_vars

C33_Witness ==
  /\ ret.op = "pollPaymentStatus"
  /\ ret.result.status = "timeout"
  /\ ret.timeoutMs = 0
  /\ ret.queries = 0

\* C34: operations on the same job race on the store. A status check whose
\* payment query is answered FundsLocked writes the record it read, with
\* status running, over whatever the store holds for the job by then; and
\* updateJobStatus, once its submit-result call has succeeded, writes the
\* copy it built before the call over whatever the store holds by then.
C34_StaleReadOverwrites ==
  [][\A c \in Slots, j \in JobIds :
       /\ (/\ calls[c].op = "handleStatusResponse"
           /\ calls[c].jobId = j
           /\ PollAnswer(c, "FundsLocked"))
          => StoredJobAfter(j) =
               [HeldJob(c) EXCEPT !.status = JOB_STATUS.RUNNING,
                                  !.updated_at = now]
       /\ (calls[c].jobId = j /\ SubmitResponse(c, "ok"))
          => StoredJobAfter(j) = calls[c].updatedJob]_vars

\* the stored job is running without a result although its result was
\* submitted: the completed record was replaced by the status check's write
C34_Witness ==
  \E j \in JobIds :
    /\ StoredJob(j).status = JOB_STATUS.RUNNING
    /\ StoredJob(j).result = Undefined
    /\ StoredJob(j).payment.blockchainIdentifier \in submitted

\* C35: for each job at most one submit-result request is ever sent
\* successfully: a submit-result call succeeds only for a job whose result
\* has not been submitted before
C35_AtMostOneSubmitPerJob ==
  [][\A c \in Slots :
       SubmitResponse(c, "ok")
       => calls[c].updatedJob.payment.blockchainIdentifier \notin submitted
    ]_vars

\* C36: the classification pollPaymentStatus applies inline to the value a
\* query observed (a payment record with its onChainState, or no record)
\* agrees with interpretPaymentStatus of that value: the poller returns
\* success exactly when isConfirmed, returns a failure carrying the on-chain
\* state exactly when isError, and sets its interval timer to poll again
\* exactly when shouldContinuePolling
C36_PollerAgreesWithInterpret ==
  [][\A c \in Slots, a \in QueryAnswers \ {"failed"} :
       (calls[c].op = "pollPaymentStatus" /\ PollAnswer(c, a))
       => LET out == interpretPaymentStatus(a)
              returned == calls'[c].pc = "idle" /\ ret'.op = "pollPaymentStatus"
          IN /\ out.isConfirmed
                <=> (returned /\ ret'.result.success /\ ret'.result.status = a)
             /\ out.isError
                <=> (returned /\ ~ret'.result.success /\ ret'.result.status = a)
             /\ out.shouldContinuePolling <=> calls'[c].pc = "sleep"]_vars

C36_Witness ==
  /\ ret.op = "pollPaymentStatus"
  /\ ret.result.status = "Disputed"
  /\ ~ret.result.success
  /\ interpretPaymentStatus(ret.result.payment).isError

\* C37: last_job_id, when set, is the id of a job present in the store; it
\* is set to the id of a job when handleStartJob has stored it and when a
\* status check has found it, and by nothing else; an updateStatus operation
\* given an empty job id takes last_job_id as its job id, changes the stored
\* record of that job and leaves every other stored job as it is
C37_LastJobIdNamesLatestJob ==
  /\ [](last_job_id # NoId => getJob(last_job_id) # NoRef)
  /\ [][/\ \A c \in Slots, j \in StoreIds, o \in PaymentOutcomes :
             (/\ calls[c].jobId = j
              /\ StartJobPaymentResponse(c, o, MaxStamp)
              /\ jobs'[j] # NoRef)
             => last_job_id' = j
        /\ \A c \in Slots, j \in StoreIds :
             (StatusCall(c, j) /\ getJob(j) # NoRef) => last_job_id' = j
        /\ last_job_id' # last_job_id
           => \/ \E c \in Slots, o \in PaymentOutcomes :
                   /\ StartJobPaymentResponse(c, o, MaxStamp)
                   /\ jobs'[last_job_id'] # jobs[last_job_id']
              \/ \E c \in Slots : StatusCall(c, last_job_id')
        /\ \A c \in Slots, st \in VALID_JOB_STATUSES, r \in ResultArgs,
              e \in ErrorArgs :
             (/\ last_job_id # NoId
              /\ st = JOB_STATUS.COMPLETED => Truthy(r)
              /\ UpdateStatusOperation(c, NoId, st, r, e))
             => /\ calls'[c].pc = "awaitCredentials"
                /\ calls'[c].jobId = last_job_id
        /\ \A c \in Slots, j \in StoreIds, o \in SubmitOutcomes :
             (/\ calls[c].jobId = j
              /\ \/ UpdateStatusCredentials(c)
                 \/ UpdateStatusSubmitResponse(c, o))
             => /\ \A k \in StoreIds \ {j} : StoredJobAfter(k) = StoredJob(k)
                /\ (calls'[c].pc = "idle" /\ ret'.outcome = "returned")
                   => StoredJobAfter(j).status = calls[c].status
       ]_vars

\* an update given no job id has changed the older of two stored jobs, the
\* one a status check found last, and not the job created last
C37_Witness ==
  \E j, k \in StoreIds :
    /\ j < k
    /\ getJob(k) # NoRef
    /\ last_job_id = j
    /\ ret.op = "updateStatus"
    /\ ret.outcome = "returned"
    /\ ret.given = NoId
    /\ ret.job_id = j
    /\ StoredJob(j).status = JOB_STATUS.COMPLETED
    /\ StoredJob(k).status = JOB_STATUS.AWAITING_PAYMENT

\* C38: a status check and a status update change only status, updated_at,
\* result and error of a job: job_id, identifier_from_purchaser, input_data,
\* created_at (and the payment record) of every stored job stay what they
\* were, the steps of an operation on one job leave every other stored job
\* as it is, and the steps before the first await of a status check or an
\* update store nothing
C38_UpdatesKeepIdentityFields ==
  [][/\ \A j \in StoreIds :
          getJob(j) # NoRef
          => /\ StoredJobAfter(j).job_id = StoredJob(j).job_id
             /\ StoredJobAfter(j).identifier_from_purchaser
                  = StoredJob(j).identifier_from_purchaser
             /\ StoredJobAfter(j).input_data = StoredJob(j).input_data
             /\ StoredJobAfter(j).created_at = StoredJob(j).created_at
             /\ StoredJobAfter(j).payment = StoredJob(j).payment
     /\ \A c \in Slots, j \in StoreIds :
          (/\ calls[c].op \in {"handleStatusResponse", "updateStatus"}
           /\ calls[c].jobId = j
           /\ calls'[c] # calls[c])
          => \A k \in StoreIds \ {j} : StoredJobAfter(k) = StoredJob(k)
     /\ \A c \in Slots, j \in NodeJobIds :
          StatusCall(c, j) => \A k \in StoreIds : StoredJobAfter(k) = StoredJob(k)
     /\ \A c \in Slots, j \in NodeJobIds, st \in StatusArgs, r \in ResultArgs,
           e \in ErrorArgs :
          UpdateStatusOperation(c, j, st, r, e)
          => \A k \in StoreIds : StoredJobAfter(k) = StoredJob(k)
    ]_vars

\* one of two stored jobs was completed with a result at a later time than
\* its creation, the other is as handleStartJob stored it
C38_Witness ==
  \E j, k \in StoreIds :
    /\ j # k
    /\ StoredJob(j).status = JOB_STATUS.COMPLETED
    /\ StoredJob(j).result = "r1"
    /\ StoredJob(j).updated_at > StoredJob(j).created_at
    /\ StoredJob(j).job_id = j
    /\ StoredJob(k).status = JOB_STATUS.AWAITING_PAYMENT
    /\ StoredJob(k).updated_at = StoredJob(k).created_at

====
